---- MODULE Spec2Model ----
(***************************************************************************)
(* Model of src/src/libs/actions/ReportActions.js: the report-action       *)
(* mirror (reportActions), the Sequence Index                              *)
(* (reportActionsMaxSequenceNumbers), the Onyx subscription callback that  *)
(* maintains both, the three derived-view queries and the two optimistic   *)
(* mutations.                                                              *)
(*                                                                         *)
(* JavaScript values are encoded as follows.                               *)
(*  - An object is a function whose DOMAIN is the set of its own keys; an  *)
(*    undefined property is a key that is not in the DOMAIN.               *)
(*  - An action is an object over the field names sequenceNumber,          *)
(*    actionName, message, pendingAction, errors, isLoading.               *)
(*  - A null property value (pendingAction, errors) is the string "null".  *)
(*  - A null action (a null entry of a patch or of an overlay) is the      *)
(*    object NullValue, recognised by IsNull.                              *)
(*  - message is a sequence of message parts; a part is an object with the *)
(*    field html; html is a sequence of tokens (tags and words), the empty *)
(*    string being the empty sequence.                                     *)
(*  - An array is a sequence (1-based); index 0 stands for JavaScript's    *)
(*    index -1 ("not found").                                              *)
(***************************************************************************)
EXTENDS Integers, Sequences, FiniteSets, TLC

VARIABLES
    store,                            \* Onyx: reportID -> persisted action collection
    mergeQueue,                       \* Onyx: reportID -> Onyx.merge calls scheduled, not yet applied
    reportActions,                    \* the mirror: reportID -> array of actions
    reportActionsMaxSequenceNumbers,  \* the Sequence Index: reportID -> sequenceNumber
    writes                            \* number of store writes requested so far

vars == <<store, mergeQueue, reportActions, reportActionsMaxSequenceNumbers, writes>>

----------------------------------------------------------------------------
(* Bounds of the model *)

\* At most MaxWrites store writes (external writes and mutations) in a run.
MaxWrites == 2

\* At most MaxPending scheduled merges wait per report.
MaxPending == 1

Reports == {42, 7}

\* The report this client's callers edit; the other one changes through other
\* writers only.
EditedReports == {42}

\* Sequence numbers callers pass: that of the scenario's deleted comment and
\* that of its last comment; a report that was loaded empty holds neither.
SeqNums == {2, 3}

----------------------------------------------------------------------------
(* JavaScript values *)

NULL == "null"

NullValue == [isNull |-> TRUE]

IsNull(v) == "isNull" \in DOMAIN v

EmptyObject == <<>>

\* CONST.REPORT.ACTIONS.TYPE.ADDCOMMENT
ADDCOMMENT == "ADDCOMMENT"

\* CONST.RED_BRICK_ROAD_PENDING_ACTION.ADD
PENDING_ADD == "add"

PENDING_UPDATE == "update"

\* The property name under which _.indexBy files an action that has no
\* sequenceNumber: the string "undefined". JavaScript enumerates integer keys
\* in ascending order first and string keys after them.
UndefinedKey == -1

Max(S) == CHOOSE x \in S : \A y \in S : y <= x

Min(S) == CHOOSE x \in S : \A y \in S : x <= y

RECURSIVE Ascending(_)
Ascending(S) == IF S = {} THEN <<>> ELSE <<Min(S)>> \o Ascending(S \ {Min(S)})

\* Own enumerable keys of an object, in JavaScript's enumeration order.
ObjectKeys(obj) ==
    Ascending(DOMAIN obj \ {UndefinedKey})
        \o (IF UndefinedKey \in DOMAIN obj THEN <<UndefinedKey>> ELSE <<>>)

\* The values an object holds under the keys of a list, in the list's order.
RECURSIVE ValuesAt(_, _)
ValuesAt(obj, ks) ==
    IF ks = <<>> THEN <<>> ELSE <<obj[Head(ks)]>> \o ValuesAt(obj, Tail(ks))

\* _.toArray(obj) of an object: its values in enumeration order.
ToArray(obj) == ValuesAt(obj, ObjectKeys(obj))

\* Object.assign-like field override: the fields of b over those of a.
Override(a, b) ==
    [f \in DOMAIN a \cup DOMAIN b |-> IF f \in DOMAIN b THEN b[f] ELSE a[f]]

\* _.findLastIndex(array, predicate), given the set of positions whose element
\* satisfies the predicate: the last of them, 0 when there is none.
FindLastIndex(satisfying) == IF satisfying = {} THEN 0 ELSE Max(satisfying)

----------------------------------------------------------------------------
(* Message bodies and the external text collaborators *)

HtmlEmpty == <<>>

HtmlHi == <<"hi">>

HtmlBye == <<"bye">>

HtmlRich == <<"<b>", "new", "</b>", "<br>", "more">>

Tags == {"<b>", "</b>"}

\* ExpensiMark.htmlToText: line-break tags become line feeds, other tags go.
RECURSIVE htmlToText(_)
htmlToText(html) ==
    IF html = <<>> THEN <<>>
    ELSE LET t == Head(html)
             rest == htmlToText(Tail(html))
         IN IF t = "<br>" THEN <<"LF">> \o rest
            ELSE IF t \in Tags THEN rest
            ELSE <<t>> \o rest

\* CONST.REPORT.LAST_MESSAGE_TEXT_MAX_LENGTH, counted in tokens here.
LastMessageTextMaxLength == 2

\* ReportUtils.formatReportLastMessageText: drop what follows the first line
\* break, then cut to the maximum length.
formatReportLastMessageText(text) ==
    LET breaks == {i \in 1..Len(text) : text[i] = "LF"}
        line == IF breaks = {} THEN text ELSE SubSeq(text, 1, Min(breaks) - 1)
    IN SubSeq(line, 1, IF Len(line) < LastMessageTextMaxLength
                       THEN Len(line) ELSE LastMessageTextMaxLength)

\* ReportActionsUtils.isDeletedAction: a deleted comment has an empty message
\* array or a first message part whose html is the empty string.
isDeletedAction(action) ==
    LET message == IF IsNull(action) \/ "message" \notin DOMAIN action
                   THEN <<>> ELSE action.message
    IN \/ Len(message) = 0
       \/ /\ "html" \in DOMAIN message[1]
          /\ message[1].html = HtmlEmpty

----------------------------------------------------------------------------
(* The Onyx store *)

\* Onyx.merge(key, patch) applied to the stored value: a field-level merge of
\* every entry, arrays replaced as a whole, and every first-level key the
\* patch sets to null removed.
OnyxMerge(data, patch) ==
    LET keep == (DOMAIN data \cup DOMAIN patch)
                    \ {k \in DOMAIN patch : IsNull(patch[k])}
    IN [k \in keep |->
            IF k \notin DOMAIN patch THEN data[k]
            ELSE IF k \in DOMAIN data THEN Override(data[k], patch[k])
            ELSE patch[k]]

\* The stored collection of a report; Onyx merges into {} when there is none.
Stored(reportID) == IF reportID \in DOMAIN store THEN store[reportID] ELSE EmptyObject

\* The map with key k set to v (obj[k] = v on a JavaScript object).
Put(obj, k, v) == [x \in DOMAIN obj \cup {k} |-> IF x = k THEN v ELSE obj[x]]

\* The map without key k.
Without(obj, k) == [x \in DOMAIN obj \ {k} |-> obj[x]]

----------------------------------------------------------------------------
(* The subscription callback, lines 28-46 *)

\* A callback key that is missing (undefined or empty).
NoKey == 0

\* The payload of a callback: missing (null or undefined), or a collection.
MissingPayload == [missing |-> TRUE]

Payload(collection) == [missing |-> FALSE, value |-> collection]

\* CollectionUtils.extractCollectionItemID(key): the report id the key ends in.
extractCollectionItemID(key) == key

\* action.isLoading read as a condition: true when present and true.
IsLoading(action) == "isLoading" \in DOMAIN action /\ action.isLoading

NotLoading(action) == ~IsLoading(action)

\* Line 31: if (!key || !actions) return;
CallbackReturnsEarly(actions, key) == key = NoKey \/ actions.missing

\* Line 38
mostRecentNonLoadingActionIndex(actionsArray) == FindLastIndex({i \in 1..Len(actionsArray) : NotLoading(actionsArray[i])})

\* Line 40: the most recent non-loading action exists and has a sequenceNumber.
HasMostRecentSequenceNumber(actionsArray) ==
    /\ mostRecentNonLoadingActionIndex(actionsArray) # 0
    /\ "sequenceNumber" \in
           DOMAIN actionsArray[mostRecentNonLoadingActionIndex(actionsArray)]

MostRecentSequenceNumber(actionsArray) ==
    actionsArray[mostRecentNonLoadingActionIndex(actionsArray)].sequenceNumber

\* Variant: the mirror is assigned before the payload is checked.
CallbackReportActionsBeforeCheck(actions, key) ==
    IF key = NoKey THEN reportActions
    ELSE Put(reportActions, extractCollectionItemID(key),
             IF actions.missing THEN <<>> ELSE ToArray(actions.value))

\* Variant: only the first snapshot of a report is mirrored.
CallbackReportActionsFirstOnly(actions, key) ==
    IF CallbackReturnsEarly(actions, key) \/ extractCollectionItemID(key) \in DOMAIN reportActions
    THEN reportActions
    ELSE Put(reportActions, extractCollectionItemID(key), ToArray(actions.value))

\* Variant: the delivered actions are added to the mirrored ones; a mirrored
\* action that was not delivered again stays, after the delivered ones.
CallbackReportActionsKeepingOld(actions, key) ==
    IF CallbackReturnsEarly(actions, key) THEN reportActions
    ELSE LET id == extractCollectionItemID(key)
             delivered == ToArray(actions.value)
             old == IF id \in DOMAIN reportActions THEN reportActions[id] ELSE <<>>
             kept(a) == \A i \in 1..Len(delivered) : delivered[i] # a
         IN Put(reportActions, id, delivered \o SelectSeq(old, kept))

\* Variant: one array is kept for all reports; the delivered actions become
\* the entry of every report mirrored so far.
CallbackReportActionsAllReports(actions, key) ==
    IF CallbackReturnsEarly(actions, key) THEN reportActions
    ELSE [x \in DOMAIN reportActions \cup {extractCollectionItemID(key)} |->
             ToArray(actions.value)]

\* Lines 36-37: the mirror after the callback.
CallbackReportActions(actions, key) ==
    IF CallbackReturnsEarly(actions, key) THEN reportActions
    ELSE Put(reportActions, extractCollectionItemID(key), ToArray(actions.value))

\* Variant: the last action of the array is taken, loading or not.
CallbackMaxSequenceNumbersOfLastAction(actions, key) ==
    IF CallbackReturnsEarly(actions, key) THEN reportActionsMaxSequenceNumbers
    ELSE LET actionsArray == ToArray(actions.value)
         IN IF actionsArray = <<>> \/ "sequenceNumber" \notin DOMAIN actionsArray[Len(actionsArray)]
            THEN reportActionsMaxSequenceNumbers
            ELSE Put(reportActionsMaxSequenceNumbers, extractCollectionItemID(key),
                     actionsArray[Len(actionsArray)].sequenceNumber)

\* Variant: the entry is cleared when no sequence number is found.
CallbackMaxSequenceNumbersClearing(actions, key) ==
    IF CallbackReturnsEarly(actions, key) THEN reportActionsMaxSequenceNumbers
    ELSE IF ~HasMostRecentSequenceNumber(ToArray(actions.value))
         THEN Without(reportActionsMaxSequenceNumbers, extractCollectionItemID(key))
    ELSE Put(reportActionsMaxSequenceNumbers, extractCollectionItemID(key),
             MostRecentSequenceNumber(ToArray(actions.value)))

\* Lines 38-44: the Sequence Index after the callback.
CallbackMaxSequenceNumbers(actions, key) ==
    IF CallbackReturnsEarly(actions, key) THEN reportActionsMaxSequenceNumbers
    ELSE IF ~HasMostRecentSequenceNumber(ToArray(actions.value))
         THEN reportActionsMaxSequenceNumbers
    ELSE Put(reportActionsMaxSequenceNumbers, extractCollectionItemID(key),
             MostRecentSequenceNumber(ToArray(actions.value)))

callback(actions, key) ==
    /\ reportActions' = CallbackReportActions(actions, key)
    /\ reportActionsMaxSequenceNumbers' = CallbackMaxSequenceNumbers(actions, key)

\* An ADDCOMMENT action with one message part.
AddComment(n, html) ==
    [sequenceNumber |-> n, actionName |-> ADDCOMMENT, message |-> <<[html |-> html]>>]

----------------------------------------------------------------------------
(* The derived-view queries, lines 54-102 *)

\* A JavaScript undefined returned where an action is expected.
Undefined == [undefined |-> TRUE]

\* The queries read the module's reportActions map; the operators below take
\* the map they read as their first parameter, mirror.

\* mirror[reportID], an empty array standing for undefined where the caller
\* only iterates it.
MirroredIn(mirror, reportID) ==
    IF reportID \in DOMAIN mirror THEN mirror[reportID] ELSE <<>>

Mirrored(reportID) == MirroredIn(reportActions, reportID)

\* Lines 65-66: the html of the first message part, '' when there is none.
FirstHtml(action) ==
    IF /\ "message" \in DOMAIN action
       /\ Len(action.message) > 0
       /\ "html" \in DOMAIN action.message[1]
    THEN action.message[1].html
    ELSE HtmlEmpty

\* Lines 60-67: whether the reducer adds one for this action. A comparison
\* with an undefined sequenceNumber is false in JavaScript.
CountsAsDeleted(action, sequenceNumber) ==
    /\ "actionName" \in DOMAIN action
    /\ action.actionName = ADDCOMMENT
    /\ ~("sequenceNumber" \in DOMAIN action /\ action.sequenceNumber <= sequenceNumber)
    /\ FirstHtml(action) = HtmlEmpty

\* _.reduce(list, iteratee, 0) of lines 59-68, from the first element on.
RECURSIVE ReduceDeleted(_, _, _)
ReduceDeleted(list, sequenceNumber, numDeletedMessages) ==
    IF list = <<>> THEN numDeletedMessages
    ELSE ReduceDeleted(Tail(list), sequenceNumber,
             IF CountsAsDeleted(Head(list), sequenceNumber)
             THEN numDeletedMessages + 1 ELSE numDeletedMessages)

\* Lines 54-69
DeletedCommentsCountIn(mirror, reportID, sequenceNumber) ==
    IF reportID \notin DOMAIN mirror THEN 0
    ELSE ReduceDeleted(mirror[reportID], sequenceNumber, 0)

getDeletedCommentsCount(reportID, sequenceNumber) ==
    DeletedCommentsCountIn(reportActions, reportID, sequenceNumber)

\* The key _.indexBy(list, 'sequenceNumber') files an action under.
IndexKey(action) ==
    IF "sequenceNumber" \in DOMAIN action THEN action.sequenceNumber ELSE UndefinedKey

\* Lines 79, 96: _.indexBy(reportActions[reportID], 'sequenceNumber'); of two
\* actions with one key the later one stays.
existingReportActions(mirror, reportID) ==
    LET list == MirroredIn(mirror, reportID)
        keys == {IndexKey(list[i]) : i \in 1..Len(list)}
    IN [k \in keys |-> list[Max({i \in 1..Len(list) : IndexKey(list[i]) = k})]]

\* lodash merge of two arrays: index by index, the longer one's tail kept.
LodashMergeArray(object, source) ==
    [i \in 1..Max({Len(object), Len(source)}) |->
        IF i > Len(source) THEN object[i]
        ELSE IF i > Len(object) THEN source[i]
        ELSE Override(object[i], source[i])]

\* lodash merge of two actions: field by field, arrays merged, a null kept.
LodashMergeAction(object, source) ==
    [f \in DOMAIN object \cup DOMAIN source |->
        IF f \notin DOMAIN source THEN object[f]
        ELSE IF f = "message" /\ f \in DOMAIN object
             THEN LodashMergeArray(object[f], source[f])
        ELSE source[f]]

\* lodashMerge(object, source) on maps of actions: a recursive merge in which
\* a null of the source overrides.
LodashMerge(object, source) ==
    [k \in DOMAIN object \cup DOMAIN source |->
        IF k \notin DOMAIN source THEN object[k]
        ELSE IF IsNull(source[k]) THEN NullValue
        ELSE IF k \in DOMAIN object /\ ~IsNull(object[k])
             THEN LodashMergeAction(object[k], source[k])
        ELSE source[k]]

\* Lines 80, 97: _.toArray(lodashMerge({}, existingReportActions, actionsToMerge))
MergedActions(mirror, reportID, actionsToMerge) ==
    ToArray(LodashMerge(LodashMerge(EmptyObject, existingReportActions(mirror, reportID)),
                        actionsToMerge))

NotDeleted(action) == ~isDeletedAction(action)

\* Variant: the last action is taken, deleted or not.
lastMessageIndexOfAny(actions) == Len(actions)

\* Lines 81-83
lastMessageIndex(actions) ==
    FindLastIndex({i \in 1..Len(actions) : NotDeleted(actions[i])})

\* Line 84: lodashGet(actions, [lastMessageIndex, 'message', 0, 'html'], '')
htmlText(actions) ==
    LET index == lastMessageIndex(actions)
    IN IF index = 0 \/ IsNull(actions[index]) THEN HtmlEmpty
       ELSE FirstHtml(actions[index])

\* Lines 77-87
LastVisibleMessageTextIn(mirror, reportID, actionsToMerge) ==
    formatReportLastMessageText(
        htmlToText(htmlText(MergedActions(mirror, reportID, actionsToMerge))))

getLastVisibleMessageText(reportID, actionsToMerge) ==
    LastVisibleMessageTextIn(reportActions, reportID, actionsToMerge)

\* Lines 98-100
lastVisibleReportActionIndex(actions) ==
    FindLastIndex({i \in 1..Len(actions) : NotDeleted(actions[i])})

\* Lines 95-102
LastVisibleReportActionIn(mirror, reportID, actionsToMerge) ==
    LET actions == MergedActions(mirror, reportID, actionsToMerge)
        index == lastVisibleReportActionIndex(actions)
    IN IF index = 0 THEN Undefined ELSE actions[index]

getLastVisibleReportAction(reportID, actionsToMerge) ==
    LastVisibleReportActionIn(reportActions, reportID, actionsToMerge)

\* Variant: lodashMerge(existingReportActions, actionsToMerge), which writes the
\* overlay's fields into the mirrored actions themselves.
ReportActionsAfterMergeInPlace(reportID, actionsToMerge) ==
    IF reportID \notin DOMAIN reportActions THEN reportActions
    ELSE [reportActions EXCEPT ![reportID] =
            [i \in 1..Len(@) |->
                IF /\ IndexKey(@[i]) \in DOMAIN actionsToMerge
                   /\ ~IsNull(actionsToMerge[IndexKey(@[i])])
                   /\ existingReportActions(reportActions, reportID)[IndexKey(@[i])] = @[i]
                THEN LodashMergeAction(@[i], actionsToMerge[IndexKey(@[i])])
                ELSE @[i]]]

\* Lines 80, 97: the mirror once the merge has run. lodashMerge writes into its
\* first argument, a new object, and copies the nested objects of its sources
\* into it, so no object the mirror holds is written.
ReportActionsAfterMerge(reportID, actionsToMerge) == reportActions

\* Overlays callers pass as actionsToMerge.
Overlays ==
    { EmptyObject,
      3 :> NullValue,
      2 :> [message |-> <<[html |-> HtmlHi]>>],
      3 :> [message |-> <<[html |-> HtmlEmpty]>>],
      3 :> [message |-> <<>>],
      3 :> [message |-> <<EmptyObject>>],
      1 :> [pendingAction |-> NULL, errors |-> NULL],
      4 :> AddComment(4, HtmlRich) }

----------------------------------------------------------------------------
(* Data the store receives from outside this module *)

\* The collection of the scenario: comments 1 "hi", 2 deleted, 3 "bye".
ScenarioActions ==
    (1 :> AddComment(1, HtmlHi)) @@ (2 :> AddComment(2, HtmlEmpty))
        @@ (3 :> AddComment(3, HtmlBye))

\* Patches other writers merge into a report's collection.
ExternalPatches ==
    { \* a report's CREATED action, which carries no text
      1 :> [sequenceNumber |-> 1, actionName |-> "CREATED",
            message |-> <<[html |-> HtmlEmpty]>>],
      \* a comment with markup and a line break
      3 :> AddComment(3, HtmlRich),
      \* a failed edit of comment 2, flagged by the store
      2 :> [pendingAction |-> PENDING_UPDATE, errors |-> "err"],
      \* an optimistic comment still loading
      3 :> (AddComment(3, HtmlBye)
                @@ [isLoading |-> TRUE, pendingAction |-> PENDING_ADD]),
      \* an optimistic comment that has no sequenceNumber yet and whose text
      \* was removed again; a writer that keys actions by sequenceNumber
      \* files it under 'undefined'
      UndefinedKey :> [actionName |-> ADDCOMMENT, message |-> <<[html |-> HtmlEmpty]>>,
                       pendingAction |-> PENDING_ADD] }

\* A patch of fields alone (no actionName) is written to an action the
\* collection holds; only a whole action adds an entry.
PatchFits(data, patch) ==
    \A k \in DOMAIN patch : "actionName" \in DOMAIN patch[k] \/ k \in DOMAIN data

Messages == {[html |-> HtmlEmpty], [html |-> HtmlRich]}

PendingActions == {PENDING_ADD, PENDING_UPDATE}

\* What callers pass as sequenceNumber to the two mutations: a sequence
\* number, or undefined (an optimistic action that has none yet), which
\* JavaScript turns into the property name 'undefined' of the patch.
SequenceNumberArgs == SeqNums \cup {UndefinedKey}

----------------------------------------------------------------------------
(* Operations *)

\* Collections the store may hold for a report when the module is loaded.
PersistedCollections == {ScenarioActions}

\* Onyx.connect (line 28) delivers the stored value of each existing key once:
\* a scheduled merge of nothing, whose callback carries the stored value.
InitialDelivery == [op |-> "connect", patch |-> EmptyObject]

\* The module is loaded: the mirror and the Sequence Index are empty (lines
\* 25-26); the store holds nothing, or a persisted collection of one report
\* that is still to be delivered.
Init ==
    /\ \/ /\ store = EmptyObject
          /\ mergeQueue = [r \in Reports |-> <<>>]
       \/ \E r0 \in Reports, c \in PersistedCollections :
             /\ store = (r0 :> c)
             /\ mergeQueue = [r \in Reports |-> IF r = r0 THEN <<InitialDelivery>> ELSE <<>>]
    /\ reportActions = EmptyObject
    /\ reportActionsMaxSequenceNumbers = EmptyObject
    /\ writes = 0

\* Another writer merges a patch into the report's collection; Onyx stores the
\* result and calls the subscriber with it.
ExternalMerge(reportID, patch) ==
    /\ writes < MaxWrites
    /\ PatchFits(Stored(reportID), patch)
    /\ writes' = writes + 1
    /\ store' = Put(store, reportID, OnyxMerge(Stored(reportID), patch))
    /\ callback(Payload(store'[reportID]), reportID)
    /\ UNCHANGED mergeQueue

\* The report's collection is removed from the store; the subscriber is called
\* with no value.
ExternalRemove(reportID) ==
    /\ writes < MaxWrites
    /\ reportID \in DOMAIN store
    /\ writes' = writes + 1
    /\ store' = Without(store, reportID)
    /\ callback(MissingPayload, reportID)
    /\ UNCHANGED mergeQueue

\* The subscriber is called without a key (Onyx does so when no key of the
\* collection exists).
CallbackWithoutKey(actions) ==
    /\ callback(actions, NoKey)
    /\ UNCHANGED <<store, mergeQueue, writes>>

\* Variant: the patch also resets the action's pendingAction.
UpdatePatchClearingPending(sequenceNumber, message) ==
    sequenceNumber :> [message |-> <<message>>, pendingAction |-> NULL]

\* Lines 110-111
UpdatePatch(sequenceNumber, message) == sequenceNumber :> [message |-> <<message>>]

\* Variant: the patch is written and the subscriber called before the call
\* returns.
updateReportActionMessageAtOnce(reportID, sequenceNumber, message) ==
    /\ writes < MaxWrites
    /\ writes' = writes + 1
    /\ store' = Put(store, reportID,
                    OnyxMerge(Stored(reportID), UpdatePatch(sequenceNumber, message)))
    /\ callback(Payload(store'[reportID]), reportID)
    /\ UNCHANGED mergeQueue

\* Lines 109-112: Onyx.merge schedules the patch and returns.
updateReportActionMessage(reportID, sequenceNumber, message) ==
    /\ writes < MaxWrites
    /\ Len(mergeQueue[reportID]) < MaxPending
    /\ writes' = writes + 1
    /\ mergeQueue' = [mergeQueue EXCEPT ![reportID] =
           Append(@, [op |-> "updateReportActionMessage",
                      sequenceNumber |-> sequenceNumber,
                      message |-> message,
                      patch |-> UpdatePatch(sequenceNumber, message)])]
    /\ UNCHANGED <<store, reportActions, reportActionsMaxSequenceNumbers>>

\* Variant: the branches are taken the other way round.
DeletePatchSwapped(sequenceNumber, pendingAction) ==
    IF pendingAction # PENDING_ADD
    THEN sequenceNumber :> NullValue
    ELSE sequenceNumber :> [pendingAction |-> NULL, errors |-> NULL]

\* Variant: the first branch clears the fields too and removes nothing.
DeletePatchNeverRemoving(sequenceNumber, pendingAction) ==
    sequenceNumber :> [pendingAction |-> NULL, errors |-> NULL]

\* Variant: the second branch empties the message as well.
DeletePatchClearingMessage(sequenceNumber, pendingAction) ==
    IF pendingAction = PENDING_ADD
    THEN sequenceNumber :> NullValue
    ELSE sequenceNumber :> [pendingAction |-> NULL, errors |-> NULL, message |-> <<>>]

\* Lines 124-135: the patch of the branch taken.
DeletePatch(sequenceNumber, pendingAction) ==
    IF pendingAction = PENDING_ADD
    THEN sequenceNumber :> NullValue
    ELSE sequenceNumber :> [pendingAction |-> NULL, errors |-> NULL]

\* Lines 123-136
deleteOptimisticReportAction(reportID, sequenceNumber, pendingAction) ==
    /\ writes < MaxWrites
    /\ Len(mergeQueue[reportID]) < MaxPending
    /\ writes' = writes + 1
    /\ mergeQueue' = [mergeQueue EXCEPT ![reportID] =
           Append(@, [op |-> "deleteOptimisticReportAction",
                      sequenceNumber |-> sequenceNumber,
                      pendingAction |-> pendingAction,
                      patch |-> DeletePatch(sequenceNumber, pendingAction)])]
    /\ UNCHANGED <<store, reportActions, reportActionsMaxSequenceNumbers>>

\* Onyx applies the oldest scheduled merge of the report, stores the result
\* and calls the subscriber with it.
OnyxApplyMerge(reportID) ==
    /\ mergeQueue[reportID] # <<>>
    /\ mergeQueue' = [mergeQueue EXCEPT ![reportID] = Tail(@)]
    /\ store' = Put(store, reportID,
                    OnyxMerge(Stored(reportID), Head(mergeQueue[reportID]).patch))
    /\ callback(Payload(store'[reportID]), reportID)
    /\ UNCHANGED writes

\* A caller runs getLastVisibleMessageText.
CallGetLastVisibleMessageText(reportID, actionsToMerge) ==
    /\ reportActions' = ReportActionsAfterMerge(reportID, actionsToMerge)
    /\ UNCHANGED <<store, mergeQueue, reportActionsMaxSequenceNumbers, writes>>

\* A caller runs getLastVisibleReportAction.
CallGetLastVisibleReportAction(reportID, actionsToMerge) ==
    /\ reportActions' = ReportActionsAfterMerge(reportID, actionsToMerge)
    /\ UNCHANGED <<store, mergeQueue, reportActionsMaxSequenceNumbers, writes>>

\* A caller runs getDeletedCommentsCount, which only reads the mirror.
CallGetDeletedCommentsCount(reportID, sequenceNumber) ==
    /\ getDeletedCommentsCount(reportID, sequenceNumber) \in Nat
    /\ UNCHANGED vars

Next ==
    \/ \E r \in Reports, p \in ExternalPatches : ExternalMerge(r, p)
    \/ \E r \in Reports : ExternalRemove(r)
    \/ \E a \in {MissingPayload, Payload(ScenarioActions)} : CallbackWithoutKey(a)
    \/ \E r \in EditedReports, n \in SequenceNumberArgs, m \in Messages :
           updateReportActionMessage(r, n, m)
    \/ \E r \in EditedReports, n \in SequenceNumberArgs, pa \in PendingActions :
           deleteOptimisticReportAction(r, n, pa)
    \/ \E r \in Reports : OnyxApplyMerge(r)

Spec == Init /\ [][Next]_vars

\* The oldest scheduled merge of some report leaves its queue: in this system
\* exactly the steps OnyxApplyMerge takes.
MergeTaken ==
    \E r \in Reports :
        /\ mergeQueue[r] # <<>>
        /\ mergeQueue' = [mergeQueue EXCEPT ![r] = Tail(@)]

\* Onyx keeps applying the merges it has scheduled: while one waits, one is
\* applied; a run schedules finitely many, so none waits forever.
Fairness == WF_mergeQueue(MergeTaken)

FairSpec == Spec /\ Fairness

\* The same system with its callers' queries as steps.
NextWithQueries ==
    \/ Next
    \/ \E r \in Reports, P \in Overlays : CallGetLastVisibleMessageText(r, P)
    \/ \E r \in Reports, P \in Overlays : CallGetLastVisibleReportAction(r, P)
    \/ \E r \in Reports, n \in {0, 3} : CallGetDeletedCommentsCount(r, n)

SpecWithQueries == Init /\ [][NextWithQueries]_vars

----------------------------------------------------------------------------
(* Vocabulary of the properties, stated apart from the operators above *)

Index == reportActionsMaxSequenceNumbers

HasSeq(action) == "sequenceNumber" \in DOMAIN action

Loading(action) == "isLoading" \in DOMAIN action /\ action.isLoading = TRUE

\* Positions of the committed (non-loading) actions of an array.
Committed(arr) == {i \in 1..Len(arr) : ~Loading(arr[i])}

\* Sequence numbers of the committed actions of an array.
CommittedSeqs(arr) == {arr[i].sequenceNumber : i \in {j \in Committed(arr) : HasSeq(arr[j])}}

\* The committed actions all carry a sequence number, strictly increasing in
\* log order.
StrictlyIncreasing(arr) ==
    /\ \A i \in Committed(arr) : HasSeq(arr[i])
    /\ \A i, j \in Committed(arr) :
           i < j => arr[i].sequenceNumber < arr[j].sequenceNumber

\* The subscription callback runs for the report with a key and a payload: the
\* store has just committed a write to the report's collection, which is what
\* the callback is given.
CallbackDelivered(r) ==
    \/ \E p \in ExternalPatches : ExternalMerge(r, p)
    \/ OnyxApplyMerge(r)

\* The subscription callback runs with a missing key or a missing payload.
CallbackMissing ==
    \/ \E r \in Reports : ExternalRemove(r)
    \/ \E a \in {MissingPayload, Payload(ScenarioActions)} : CallbackWithoutKey(a)

----------------------------------------------------------------------------
(* C1 *)

\* C1 as stated: in every reachable state, for every report, the Sequence
\* Index entry equals the maximum sequenceNumber among the non-loading actions
\* the mirror holds for the report.
C1_IndexIsMaxOfMirror ==
    \A r \in Reports :
        /\ CommittedSeqs(Mirrored(r)) # {} => r \in DOMAIN Index
        /\ r \in DOMAIN Index =>
               /\ CommittedSeqs(Mirrored(r)) # {}
               /\ Index[r] = Max(CommittedSeqs(Mirrored(r)))

\* C1, amended: in every reachable state, for every report whose mirror has a
\* last non-loading action (in mirror order) that carries a sequenceNumber,
\* the Sequence Index entry equals that sequenceNumber; and a report without a
\* mirror entry has no Sequence Index entry.
C1_IndexIsLastCommitted ==
    \A r \in Reports :
        /\ r \notin DOMAIN reportActions => r \notin DOMAIN Index
        /\ ( /\ r \in DOMAIN reportActions
             /\ Committed(reportActions[r]) # {}
             /\ HasSeq(reportActions[r][Max(Committed(reportActions[r]))]) )
           => /\ r \in DOMAIN Index
              /\ Index[r] = reportActions[r][Max(Committed(reportActions[r]))].sequenceNumber

\* A report whose Sequence Index entry is below a sequence number its mirror
\* holds, the mirror ending in a loading action.
C1_Witness ==
    \E r \in DOMAIN reportActions \cap DOMAIN Index :
        /\ Committed(reportActions[r]) # {}
        /\ Max(Committed(reportActions[r])) < Len(reportActions[r])
        /\ Index[r] = reportActions[r][Max(Committed(reportActions[r]))].sequenceNumber
        /\ \E i \in 1..Len(reportActions[r]) :
               HasSeq(reportActions[r][i]) /\ reportActions[r][i].sequenceNumber > Index[r]

----------------------------------------------------------------------------
(* C2 *)

\* C2: whenever the callback for a report processes a delivered collection
\* whose non-loading actions have strictly increasing sequence numbers, the
\* Sequence Index of the report is afterwards the sequenceNumber of the last
\* non-loading action in log order, trailing loading actions skipped.
C2_IndexAfterCallback ==
    [][\A r \in Reports :
          ( /\ CallbackDelivered(r)
            /\ StrictlyIncreasing(ToArray(store'[r]))
            /\ Committed(ToArray(store'[r])) # {} )
          => /\ r \in DOMAIN Index'
             /\ Index'[r] = ToArray(store'[r])[Max(Committed(ToArray(store'[r])))].sequenceNumber
      ]_vars

\* A mirror of several committed actions followed by a loading one, the
\* Sequence Index naming the last committed action.
C2_Witness ==
    \E r \in DOMAIN reportActions \cap DOMAIN Index :
        /\ StrictlyIncreasing(reportActions[r])
        /\ Cardinality(Committed(reportActions[r])) >= 2
        /\ Loading(reportActions[r][Len(reportActions[r])])
        /\ Index[r] = Max(CommittedSeqs(reportActions[r]))

----------------------------------------------------------------------------
(* C3 *)

\* C3: when the callback for a report delivers a collection with no
\* non-loading action, or whose last non-loading action has no
\* sequenceNumber, the Sequence Index is after the callback exactly what it
\* was before: no entry is cleared or changed.
C3_IndexKept ==
    [][\A r \in Reports :
          ( /\ CallbackDelivered(r)
            /\ \/ Committed(ToArray(store'[r])) = {}
               \/ ~HasSeq(ToArray(store'[r])[Max(Committed(ToArray(store'[r])))]) )
          => /\ DOMAIN Index' = DOMAIN Index
             /\ \A x \in DOMAIN Index : Index'[x] = Index[x]
      ]_vars

\* A report with a Sequence Index entry whose mirror holds only loading
\* actions.
C3_Witness ==
    \E r \in DOMAIN reportActions \cap DOMAIN Index :
        /\ reportActions[r] # <<>>
        /\ Committed(reportActions[r]) = {}
        /\ reportActions[r] = ToArray(store[r])

----------------------------------------------------------------------------
(* C4 *)

\* C4: a callback delivered with a missing key or a missing payload changes
\* neither the mirror entry nor the Sequence Index entry of any report.
C4_MissingIsNoOp ==
    [][CallbackMissing =>
          /\ DOMAIN reportActions' = DOMAIN reportActions
          /\ \A r \in DOMAIN reportActions : reportActions'[r] = reportActions[r]
          /\ DOMAIN Index' = DOMAIN Index
          /\ \A r \in DOMAIN Index : Index'[r] = Index[r]
      ]_vars

\* A report removed from the store whose mirror and Sequence Index entries
\* are still there.
C4_Witness ==
    \E r \in DOMAIN reportActions \cap DOMAIN Index :
        /\ r \notin DOMAIN store
        /\ reportActions[r] # <<>>

----------------------------------------------------------------------------
(* C5 *)

\* The mirrored actions the count is about: ADDCOMMENT, sequenceNumber above
\* the threshold, first message part with empty html or no message part.
DeletedCommentsAbove(r, n) ==
    {i \in 1..Len(Mirrored(r)) :
        LET a == Mirrored(r)[i]
        IN /\ "actionName" \in DOMAIN a /\ a.actionName = "ADDCOMMENT"
           /\ HasSeq(a) /\ a.sequenceNumber > n
           /\ \/ "message" \notin DOMAIN a
              \/ Len(a.message) = 0
              \/ "html" \notin DOMAIN a.message[1]
              \/ a.message[1].html = HtmlEmpty }

\* C5: for every report and every threshold, also one above the largest
\* mirrored sequence number, getDeletedCommentsCount is the number of mirrored
\* ADDCOMMENT actions with a sequenceNumber above the threshold and an empty
\* first html; it is 0 for a report without a mirror entry.
C5_DeletedCommentsCount ==
    \A r \in Reports : \A n \in 0..5 :
        /\ getDeletedCommentsCount(r, n) = Cardinality(DeletedCommentsAbove(r, n))
        /\ r \notin DOMAIN reportActions => getDeletedCommentsCount(r, n) = 0

----------------------------------------------------------------------------
(* C6 *)

\* The html the text of a returned action is made from: that of its first
\* message part, empty when there is no action, no part or no html in it.
HtmlOfReturned(action) ==
    IF "undefined" \in DOMAIN action \/ "message" \notin DOMAIN action THEN <<>>
    ELSE IF Len(action.message) = 0 THEN <<>>
    ELSE IF "html" \notin DOMAIN action.message[1] THEN <<>>
    ELSE action.message[1].html

\* C6: for every mirror state, report and overlay, getLastVisibleMessageText
\* is the converted and formatted first html of the action
\* getLastVisibleReportAction returns (empty html when it returns none).
C6_TextAgreesWithAction ==
    \A r \in Reports : \A P \in Overlays :
        getLastVisibleMessageText(r, P)
            = formatReportLastMessageText(
                  htmlToText(HtmlOfReturned(getLastVisibleReportAction(r, P))))

\* An overlay under which the last visible action is not the mirror's own and
\* its text is not empty.
C6_Witness ==
    \E r \in DOMAIN reportActions : \E P \in Overlays :
        /\ "undefined" \notin DOMAIN getLastVisibleReportAction(r, P)
        /\ getLastVisibleReportAction(r, P) # getLastVisibleReportAction(r, EmptyObject)
        /\ getLastVisibleMessageText(r, P) # <<>>
        /\ \E i \in 1..Len(reportActions[r]) : isDeletedAction(reportActions[r][i])

----------------------------------------------------------------------------
(* C7 *)

QueryRuns(r, P) ==
    \/ CallGetLastVisibleMessageText(r, P)
    \/ CallGetLastVisibleReportAction(r, P)

\* C7: a call of getLastVisibleMessageText or getLastVisibleReportAction with
\* any overlay leaves every mirrored action of every report and the Sequence
\* Index as they were, and with them what either query returns for an empty
\* overlay.
C7_OverlayLeavesMirror ==
    [][(\E r \in Reports : \E P \in Overlays : QueryRuns(r, P)) =>
          /\ DOMAIN reportActions' = DOMAIN reportActions
          /\ \A x \in DOMAIN reportActions : reportActions'[x] = reportActions[x]
          /\ Index' = Index
          /\ \A x \in DOMAIN reportActions' :
                 /\ LastVisibleMessageTextIn(reportActions', x, EmptyObject)
                        = getLastVisibleMessageText(x, EmptyObject)
                 /\ LastVisibleReportActionIn(reportActions', x, EmptyObject)
                        = getLastVisibleReportAction(x, EmptyObject)
      ]_vars

\* A mirror on which an overlay that rewrites a mirrored action changes what
\* the text query returns.
C7_Witness ==
    \E r \in DOMAIN reportActions : \E P \in Overlays :
        /\ \E i \in 1..Len(reportActions[r]) :
               /\ IndexKey(reportActions[r][i]) \in DOMAIN P
               /\ ~IsNull(P[IndexKey(reportActions[r][i])])
        /\ getLastVisibleMessageText(r, P) # getLastVisibleMessageText(r, EmptyObject)

----------------------------------------------------------------------------
(* C8 *)

\* Onyx applies the merge a call of deleteOptimisticReportAction scheduled for
\* sequence number n with the given pendingAction, and the callback runs.
DeleteCommitted(r, n, pa) ==
    /\ OnyxApplyMerge(r)
    /\ Head(mergeQueue[r]).op = "deleteOptimisticReportAction"
    /\ Head(mergeQueue[r]).sequenceNumber = n
    /\ Head(mergeQueue[r]).pendingAction = pa

\* C8: deleteOptimisticReportAction with pendingAction Add removes the entry
\* at n from the report's collection, so that the mirror holds no action for
\* n; with any other pendingAction an entry at n stays, its pendingAction and
\* errors null, and the mirror holds it.
C8_DeleteTwoBranches ==
    [][\A r \in Reports : \A n \in SeqNums : \A pa \in PendingActions :
          DeleteCommitted(r, n, pa) =>
              /\ reportActions'[r] = ToArray(store'[r])
              /\ pa = "add" =>
                     /\ n \notin DOMAIN store'[r]
                     /\ \A i \in 1..Len(reportActions'[r]) :
                            IndexKey(reportActions'[r][i]) # n
                     /\ Len(reportActions'[r]) = Cardinality(DOMAIN Stored(r) \ {n})
              /\ (pa # "add" /\ n \in DOMAIN Stored(r)) =>
                     /\ n \in DOMAIN store'[r]
                     /\ store'[r][n].pendingAction = "null"
                     /\ store'[r][n].errors = "null"
                     /\ \E i \in 1..Len(reportActions'[r]) :
                            reportActions'[r][i] = store'[r][n]
      ]_vars

\* A mirrored action with a sequence number whose pendingAction and errors
\* are null: only the second branch clears them.
C8_Witness ==
    \E r \in DOMAIN reportActions : \E i \in 1..Len(reportActions[r]) :
        /\ HasSeq(reportActions[r][i])
        /\ "pendingAction" \in DOMAIN reportActions[r][i]
        /\ reportActions[r][i].pendingAction = "null"
        /\ reportActions[r][i].errors = "null"

----------------------------------------------------------------------------
(* C9 *)

TextOf(html) == formatReportLastMessageText(htmlToText(html))

\* C9: with report 42 mirrored as comments 1 "hi", 2 "" and 3 "bye",
\* getDeletedCommentsCount(42, 0) is 1 and getLastVisibleMessageText(42, {})
\* is the formatted text of "bye"; once deleteOptimisticReportAction(42, 3,
\* Add) is committed on it, getLastVisibleMessageText(42, {}) is the formatted
\* text of "hi".
C9_Scenario ==
    [][/\ ( /\ 42 \in DOMAIN reportActions'
            /\ reportActions'[42] = ToArray(ScenarioActions) )
          => /\ DeletedCommentsCountIn(reportActions', 42, 0) = 1
             /\ LastVisibleMessageTextIn(reportActions', 42, EmptyObject) = TextOf(<<"bye">>)
       /\ ( /\ 42 \in DOMAIN reportActions
            /\ reportActions[42] = ToArray(ScenarioActions)
            /\ Stored(42) = ScenarioActions
            /\ DeleteCommitted(42, 3, "add") )
          => LastVisibleMessageTextIn(reportActions', 42, EmptyObject) = TextOf(<<"hi">>)
      ]_vars

\* Report 42 after the scenario: comments 1 "hi" and 2 "" mirrored, 3 gone,
\* the text query answering "hi".
C9_Witness ==
    /\ 42 \in DOMAIN reportActions
    /\ reportActions[42] = <<AddComment(1, <<"hi">>), AddComment(2, <<>>)>>
    /\ getLastVisibleMessageText(42, EmptyObject) = <<"hi">>
    /\ mergeQueue[42] = <<>>

----------------------------------------------------------------------------
(* C10 *)

\* Onyx applies the merge a call of updateReportActionMessage scheduled for
\* sequence number n and message m, and the callback runs.
UpdateCommitted(r, n, m) ==
    /\ OnyxApplyMerge(r)
    /\ Head(mergeQueue[r]).op = "updateReportActionMessage"
    /\ Head(mergeQueue[r]).sequenceNumber = n
    /\ Head(mergeQueue[r]).message = m

\* C10: updateReportActionMessage schedules one merge; once it is committed on
\* a collection that holds an action at n and the callback has run, the
\* mirrored action at n has the message <<m>> and its other fields as before,
\* and the other actions of the report are as before.
C10_UpdateMessage ==
    [][\A r \in Reports : \A n \in SequenceNumberArgs : \A m \in Messages :
          /\ updateReportActionMessage(r, n, m) =>
                 /\ Len(mergeQueue'[r]) = Len(mergeQueue[r]) + 1
                 /\ \A x \in Reports \ {r} : mergeQueue'[x] = mergeQueue[x]
          /\ (UpdateCommitted(r, n, m) /\ n \in DOMAIN Stored(r)) =>
                 /\ DOMAIN store'[r] = DOMAIN store[r]
                 /\ store'[r][n].message = <<m>>
                 /\ DOMAIN store'[r][n] = DOMAIN store[r][n] \cup {"message"}
                 /\ \A f \in DOMAIN store[r][n] \ {"message"} :
                        store'[r][n][f] = store[r][n][f]
                 /\ \A k \in DOMAIN store[r] \ {n} : store'[r][k] = store[r][k]
                 /\ reportActions'[r] = ToArray(store'[r])
      ]_vars

\* A mirrored comment below sequence number 3 that carries the rich message:
\* no other writer gives it one.
C10_Witness ==
    \E r \in DOMAIN reportActions : \E i \in 1..Len(reportActions[r]) :
        /\ HasSeq(reportActions[r][i])
        /\ reportActions[r][i].sequenceNumber < 3
        /\ reportActions[r][i].message = <<[html |-> HtmlRich]>>
        /\ mergeQueue[r] = <<>>

----------------------------------------------------------------------------
(* C11 *)

\* Every action of the merged array is a deleted one (or there is none).
AllDeleted(r, P) ==
    \A i \in 1..Len(MergedActions(reportActions, r, P)) :
        isDeletedAction(MergedActions(reportActions, r, P)[i])

----------------------------------------------------------------------------
(* C12 *)

\* The messages other writers (the confirmed data) give the action at n.
ConfirmedMessages(n) ==
    {c[n].message : c \in {x \in ExternalPatches \cup PersistedCollections :
                              n \in DOMAIN x /\ "message" \in DOMAIN x[n]}}

\* C12 as stated: once deleteOptimisticReportAction with a pendingAction
\* other than Add is committed on a confirmed action at n whose message
\* updateReportActionMessage had changed, the mirrored action at n has
\* pendingAction and errors null and a confirmed message again.
C12_DeleteRestoresConfirmed ==
    [][\A r \in Reports : \A n \in SeqNums : \A pa \in PendingActions \ {PENDING_ADD} :
          ( /\ DeleteCommitted(r, n, pa)
            /\ n \in DOMAIN Stored(r)
            /\ HasSeq(Stored(r)[n]) )
          => \E i \in 1..Len(reportActions'[r]) :
                 /\ IndexKey(reportActions'[r][i]) = n
                 /\ reportActions'[r][i].pendingAction = "null"
                 /\ reportActions'[r][i].errors = "null"
                 /\ reportActions'[r][i].message \in ConfirmedMessages(n)
      ]_vars

\* C12, amended: once deleteOptimisticReportAction with a pendingAction other
\* than Add is committed on an action at n, the mirrored action at n has
\* pendingAction and errors null and every other field, the message among
\* them, as the store held it just before: a message written by
\* updateReportActionMessage stays.
C12_DeleteKeepsMessage ==
    [][\A r \in Reports : \A n \in SeqNums : \A pa \in PendingActions \ {PENDING_ADD} :
          ( /\ DeleteCommitted(r, n, pa)
            /\ n \in DOMAIN Stored(r) )
          => /\ n \in DOMAIN store'[r]
             /\ store'[r][n].pendingAction = "null"
             /\ store'[r][n].errors = "null"
             /\ DOMAIN store'[r][n] = DOMAIN store[r][n] \cup {"pendingAction", "errors"}
             /\ \A f \in DOMAIN store[r][n] \ {"pendingAction", "errors"} :
                    store'[r][n][f] = store[r][n][f]
             /\ \E i \in 1..Len(reportActions'[r]) : reportActions'[r][i] = store'[r][n]
      ]_vars

\* A mirrored confirmed action whose pendingAction and errors were cleared and
\* whose message is one only updateReportActionMessage wrote.
C12_Witness ==
    \E r \in DOMAIN reportActions : \E i \in 1..Len(reportActions[r]) :
        /\ HasSeq(reportActions[r][i])
        /\ "actionName" \in DOMAIN reportActions[r][i]
        /\ "pendingAction" \in DOMAIN reportActions[r][i]
        /\ reportActions[r][i].pendingAction = "null"
        /\ reportActions[r][i].errors = "null"
        /\ reportActions[r][i].message \notin ConfirmedMessages(reportActions[r][i].sequenceNumber)
        /\ mergeQueue[r] = <<>>

----------------------------------------------------------------------------
(* C13 *)

\* The mirror of the report holds exactly the actions of the store's
\* collection, in the collection's order (none when the store holds none).
MirrorMatchesStore(r) == Mirrored(r) = ToArray(Stored(r))

\* C13 as stated: with every scheduled merge applied and delivered, for every
\* report the mirror eventually holds exactly the actions of the store's
\* collection and stays so, also when the collection was removed.
C13_MirrorEventuallyStore ==
    <>[](\A r \in Reports : MirrorMatchesStore(r))

\* C13, amended: with every scheduled merge applied and delivered, for every
\* report the mirror eventually holds, and keeps holding, exactly the actions
\* of the store's collection whenever the store holds a collection for the
\* report (an emptied one included); a removed collection is outside the
\* statement.
C13_MirrorEventuallyStoredCollection ==
    <>[](\A r \in Reports : r \in DOMAIN store => MirrorMatchesStore(r))

\* The collection of a report emptied by a committed mutation after the last
\* write the run allows, the mirror holding no action for it.
C13_Witness ==
    \E r \in DOMAIN store \cap DOMAIN reportActions :
        /\ store[r] = EmptyObject
        /\ reportActions[r] = <<>>
        /\ r \in DOMAIN reportActionsMaxSequenceNumbers
        /\ writes = MaxWrites
        /\ \A x \in Reports : mergeQueue[x] = <<>>

----------------------------------------------------------------------------
(* C14 *)

\* C14 as stated: across every step, the callbacks that follow
\* updateReportActionMessage and deleteOptimisticReportAction included, the
\* Sequence Index entry of a report stays and never decreases.
C14_IndexNeverDecreases ==
    [][\A r \in DOMAIN Index :
          /\ r \in DOMAIN Index'
          /\ Index'[r] >= Index[r]
      ]_vars

\* C14, amended: the Sequence Index entry of a report stays once set, and it
\* decreases only in a callback for that report whose delivered collection
\* has a last non-loading action with a lower sequenceNumber, which it then
\* takes.
C14_IndexDecreasesOnlyToLastCommitted ==
    [][\A r \in DOMAIN Index :
          /\ r \in DOMAIN Index'
          /\ Index'[r] < Index[r] =>
                 /\ CallbackDelivered(r)
                 /\ Committed(ToArray(store'[r])) # {}
                 /\ HasSeq(ToArray(store'[r])[Max(Committed(ToArray(store'[r])))])
                 /\ Index'[r] = ToArray(store'[r])[Max(Committed(ToArray(store'[r])))].sequenceNumber
      ]_vars

\* Report 42 once its latest comment, 3, was removed from the scenario's
\* collection: the Sequence Index, 3 after the first delivery, is 2.
C14_Witness ==
    /\ 42 \in DOMAIN Index
    /\ Index[42] = 2
    /\ 3 \notin DOMAIN Stored(42)
    /\ {1, 2} \subseteq DOMAIN Stored(42)
    /\ Stored(42)[1] = ScenarioActions[1]
    /\ MirrorMatchesStore(42)

----------------------------------------------------------------------------
(* C15 *)

\* A call of one of the two mutations.
MutationCalled ==
    \E r \in EditedReports : \E n \in SequenceNumberArgs :
        \/ \E m \in Messages : updateReportActionMessage(r, n, m)
        \/ \E pa \in PendingActions : deleteOptimisticReportAction(r, n, pa)

\* C15: a call of updateReportActionMessage or deleteOptimisticReportAction
\* leaves the store, the mirror and the Sequence Index as they are, so that
\* the three queries answer as before the call; the mirror and the Sequence
\* Index change only in a callback that delivers a collection.
C15_FireAndForget ==
    [][/\ MutationCalled =>
             /\ store' = store
             /\ reportActions' = reportActions
             /\ Index' = Index
             /\ \A x \in DOMAIN reportActions' :
                    /\ LastVisibleMessageTextIn(reportActions', x, EmptyObject)
                           = getLastVisibleMessageText(x, EmptyObject)
                    /\ LastVisibleReportActionIn(reportActions', x, EmptyObject)
                           = getLastVisibleReportAction(x, EmptyObject)
                    /\ \A k \in 0..5 : DeletedCommentsCountIn(reportActions', x, k)
                                           = getDeletedCommentsCount(x, k)
       /\ (reportActions' # reportActions \/ Index' # Index) =>
              \E r \in Reports : CallbackDelivered(r)
      ]_vars

\* A removal of the latest mirrored comment is scheduled and not yet applied:
\* the mirror still holds the comment and the text query still answers with
\* it.
C15_Witness ==
    \E r \in DOMAIN reportActions :
        /\ mergeQueue[r] # <<>>
        /\ Head(mergeQueue[r]).op = "deleteOptimisticReportAction"
        /\ Head(mergeQueue[r]).pendingAction = PENDING_ADD
        /\ reportActions[r] # <<>>
        /\ IndexKey(reportActions[r][Len(reportActions[r])]) = Head(mergeQueue[r]).sequenceNumber
        /\ getLastVisibleReportAction(r, EmptyObject) = reportActions[r][Len(reportActions[r])]
        /\ MirrorMatchesStore(r)

----------------------------------------------------------------------------
(* C16 *)

\* The mirror once the overlay P has been merged into the store's collection
\* of the report as a patch and the callback for it has run (lines 36-37).
MirrorAfterCommit(r, P) == Put(reportActions, r, ToArray(OnyxMerge(Stored(r), P)))

\* The mirror of the report is the store's collection and every mirrored
\* action carries the sequence number it is stored under.
MirrorOfKeyedStore(r) ==
    /\ r \in DOMAIN reportActions
    /\ r \in DOMAIN store
    /\ MirrorMatchesStore(r)
    /\ \A k \in DOMAIN store[r] : HasSeq(store[r][k]) /\ store[r][k].sequenceNumber = k

\* C16 as stated: for every such mirror and every overlay P,
\* getLastVisibleReportAction(R, P) and getLastVisibleMessageText(R, P) are
\* what the same queries return with an empty overlay once P is merged into
\* the store's collection of R and the callback delivered.
C16_OverlayIsCommittedPatch ==
    \A r \in Reports : \A P \in Overlays :
        MirrorOfKeyedStore(r) =>
            /\ getLastVisibleReportAction(r, P)
                   = LastVisibleReportActionIn(MirrorAfterCommit(r, P), r, EmptyObject)
            /\ getLastVisibleMessageText(r, P)
                   = LastVisibleMessageTextIn(MirrorAfterCommit(r, P), r, EmptyObject)

----------------------------------------------------------------------------
(* C17 *)

\* The keys of the overlaid set: the sequence numbers of the mirrored actions
\* (UndefinedKey for one that has none) and the keys of the overlay.
OverlaidKeys(r, P) ==
    {IndexKey(Mirrored(r)[i]) : i \in 1..Len(Mirrored(r))} \cup DOMAIN P

\* The mirrored action filed under key k: the last one in the mirror.
MirroredAt(r, k) ==
    Mirrored(r)[CHOOSE i \in 1..Len(Mirrored(r)) :
                    /\ IndexKey(Mirrored(r)[i]) = k
                    /\ \A j \in 1..Len(Mirrored(r)) : IndexKey(Mirrored(r)[j]) = k => j <= i]

IsMirroredKey(r, k) == \E i \in 1..Len(Mirrored(r)) : IndexKey(Mirrored(r)[i]) = k

\* The entry of the overlaid set at key k, a field given by the overlay
\* replacing the mirrored field.
OverriddenEntry(r, P, k) ==
    IF k \notin DOMAIN P THEN MirroredAt(r, k)
    ELSE IF IsNull(P[k]) \/ ~IsMirroredKey(r, k) THEN P[k]
    ELSE [f \in DOMAIN MirroredAt(r, k) \cup DOMAIN P[k] |->
             IF f \in DOMAIN P[k] THEN P[k][f] ELSE MirroredAt(r, k)[f]]

\* Key order: sequence numbers ascending, UndefinedKey after all of them.
KeyBefore(k1, k2) == k1 # UndefinedKey /\ (k2 = UndefinedKey \/ k1 < k2)

\* Every mirrored action of the report carries a sequence number.
AllHaveSeq(r) == \A i \in 1..Len(Mirrored(r)) : HasSeq(Mirrored(r)[i])

\* C17: on a mirror whose actions all carry a sequence number,
\* getLastVisibleReportAction(R, P) is the non-deleted entry with the greatest
\* sequence number of the set obtained by keying the mirrored actions by
\* sequenceNumber and overlaying P, a field given by P overriding the mirrored
\* field; undefined when every entry is deleted.
C17_GreatestOfOverridden ==
    \A r \in Reports : \A P \in Overlays :
        AllHaveSeq(r) =>
            LET visible == {k \in OverlaidKeys(r, P) : ~isDeletedAction(OverriddenEntry(r, P, k))}
            IN IF visible = {} THEN getLastVisibleReportAction(r, P) = Undefined
               ELSE \E k \in visible :
                        /\ \A x \in visible \ {k} : KeyBefore(x, k)
                        /\ getLastVisibleReportAction(r, P) = OverriddenEntry(r, P, k)

----------------------------------------------------------------------------
(* C18 *)

\* The number of keys of a collection up to k: the place of the action stored
\* under k in the order the collection is delivered in.
PlaceOf(collection, k) ==
    Cardinality({j \in DOMAIN collection : j = k \/ KeyBefore(j, k)})

\* C18: a callback for a report with a key and a payload replaces the mirror
\* entry of the report wholesale: afterwards the entry holds every delivered
\* action, each at its place in the delivered order, and nothing else (an
\* action of the previous snapshot is there only if it was delivered again),
\* and the Sequence Index is what the index update gives on that array: the
\* sequenceNumber of its last non-loading action if it has one, otherwise the
\* Sequence Index as it was.
C18_MirrorReplacedWholesale ==
    [][\A r \in Reports :
          CallbackDelivered(r) =>
              /\ r \in DOMAIN reportActions'
              /\ Len(reportActions'[r]) = Cardinality(DOMAIN store'[r])
              /\ \A k \in DOMAIN store'[r] :
                     reportActions'[r][PlaceOf(store'[r], k)] = store'[r][k]
              /\ \A i \in 1..Len(MirroredIn(reportActions, r)) :
                     (\A k \in DOMAIN store'[r] : store'[r][k] # reportActions[r][i])
                         => \A j \in 1..Len(reportActions'[r]) :
                                reportActions'[r][j] # reportActions[r][i]
              /\ IF /\ Committed(reportActions'[r]) # {}
                    /\ HasSeq(reportActions'[r][Max(Committed(reportActions'[r]))])
                 THEN /\ DOMAIN Index' = DOMAIN Index \cup {r}
                      /\ Index'[r] = reportActions'[r][Max(Committed(reportActions'[r]))].sequenceNumber
                      /\ \A x \in DOMAIN Index \ {r} : Index'[x] = Index[x]
                 ELSE /\ DOMAIN Index' = DOMAIN Index
                      /\ \A x \in DOMAIN Index : Index'[x] = Index[x]
      ]_vars

\* A report whose collection was delivered and later delivered again without
\* comment 3: the mirror holds the two remaining actions in order and the
\* Sequence Index names the last of them.
C18_Witness ==
    \E r \in DOMAIN reportActions \cap DOMAIN Index \cap DOMAIN store :
        /\ writes >= 1
        /\ mergeQueue[r] = <<>>
        /\ DOMAIN store[r] = {1, 2}
        /\ reportActions[r] = <<store[r][1], store[r][2]>>
        /\ store[r][1] = ScenarioActions[1]
        /\ Index[r] = 2

----------------------------------------------------------------------------
(* C19 *)

\* Every action of the report's mirror entry carries a sequenceNumber.
AllHaveSeqIn(mirror, r) ==
    \A i \in 1..Len(MirroredIn(mirror, r)) : HasSeq(MirroredIn(mirror, r)[i])

\* C19: deleteOptimisticReportAction never adds an entry to a report's
\* collection: when its patch is committed and the callback delivered, for any
\* sequence number and pendingAction, the keys of the report's stored
\* collection are among those it had, the mirror entry holds no more actions
\* than before, and every mirrored action has a sequenceNumber if every one
\* had before.
C19_DeleteNeverAdds ==
    [][\A r \in Reports : \A n \in SeqNums : \A pa \in PendingActions :
          DeleteCommitted(r, n, pa) =>
              /\ DOMAIN store'[r] \subseteq DOMAIN Stored(r)
              /\ Len(reportActions'[r]) <= Len(MirroredIn(reportActions, r))
              /\ AllHaveSeqIn(reportActions, r) => AllHaveSeqIn(reportActions', r)
      ]_vars

----------------------------------------------------------------------------
(* C20 *)

\* A step that belongs to one report: the subscription callback runs for it
\* (with a collection, or with none after a removal), or one of the two
\* mutations is called for it.
OperationOn(r) ==
    \/ CallbackDelivered(r)
    \/ ExternalRemove(r)
    \/ \E n \in SequenceNumberArgs, m \in Messages : updateReportActionMessage(r, n, m)
    \/ \E n \in SequenceNumberArgs, pa \in PendingActions : deleteOptimisticReportAction(r, n, pa)

\* The three queries on a report answer the same before and after the step.
QueriesUnchanged(r) ==
    /\ \A n \in {0} \cup SeqNums :
           DeletedCommentsCountIn(reportActions', r, n) = getDeletedCommentsCount(r, n)
    /\ \A P \in Overlays :
           /\ LastVisibleMessageTextIn(reportActions', r, P) = getLastVisibleMessageText(r, P)
           /\ LastVisibleReportActionIn(reportActions', r, P) = getLastVisibleReportAction(r, P)

\* C20: a callback for a report, a call of updateReportActionMessage or
\* deleteOptimisticReportAction for it, and the callbacks these lead to,
\* leave the mirror entry and the Sequence Index entry of every other report
\* as they were (absent stays absent), and with them the answers of
\* getDeletedCommentsCount, getLastVisibleMessageText and
\* getLastVisibleReportAction on the other report, in whatever order the
\* callbacks of different reports run.
C20_PerReportIsolation ==
    [][\A r \in Reports : \A other \in Reports \ {r} :
          OperationOn(r) =>
              /\ other \in DOMAIN reportActions' <=> other \in DOMAIN reportActions
              /\ other \in DOMAIN reportActions => reportActions'[other] = reportActions[other]
              /\ other \in DOMAIN Index' <=> other \in DOMAIN Index
              /\ other \in DOMAIN Index => Index'[other] = Index[other]
              /\ QueriesUnchanged(other)
      ]_vars

\* Two reports mirrored with different actions: one holds the three comments
\* it was loaded with, the other an action rewritten by a committed
\* updateReportActionMessage; each has its own Sequence Index entry.
C20_Witness ==
    \E r \in EditedReports : \E other \in Reports \ {r} :
        /\ {r, other} \subseteq DOMAIN reportActions \cap DOMAIN Index
        /\ reportActions[other] = ToArray(ScenarioActions)
        /\ Index[other] = 3
        /\ reportActions[r] # reportActions[other]
        /\ mergeQueue[r] = <<>>
        /\ \E i \in 1..Len(reportActions[r]) :
               /\ HasSeq(reportActions[r][i])
               /\ reportActions[r][i].message = <<[html |-> HtmlEmpty]>>
               /\ reportActions[r][i].actionName = ADDCOMMENT
               /\ Index[r] = reportActions[r][i].sequenceNumber

====
